---- MODULE Spec2Model ----
(***************************************************************************)
(* A model of the changeset-to-SQL compiler of sqlitechangeset             *)
(* (src/changeset.go).  The file holds three revisions of the package;     *)
(* the definitions without a suffix model the current one (lines 498-786), *)
(* the definitions ending in _r1 and _r2 model the two earlier ones        *)
(* (lines 21-217 and 239-476).                                             *)
(***************************************************************************)
EXTENDS Integers, Sequences, FiniteSets, TLC

VARIABLES
    pc,           \* position of the caller: "idle", "loop" (inside the for loop), "done" (returned)
    conflict,     \* the conflict parameter of ChangesetIterToSQL
    AlwaysUseBlob,\* the package-level switch (changeset.go:513)
    delivered,    \* history: the operations iter.Next/iter.Op have delivered in this run
    ColumnNames,  \* _Conn.ColumnNames: table name -> column names
    tableIDs,     \* tableIDs: table name -> index into tableOps (0-based, as in the code)
    tableOps,     \* tableOps: per table, three buckets of built statements
    sql,          \* the named result sql
    err,          \* the named result err ("nil" when nil)
    emitted,      \* history: the statements in the order the final loops concatenated them
    last,         \* history: what the last BuildSQL call returned
    nNext,        \* history: number of iter.Next calls of this run
    nBuild,       \* history: number of BuildSQL calls of this run
    queries,      \* history: the tables the schema was queried for in this run, in order
    rerun,        \* TRUE once a second compilation has been started
    db0,          \* round trip: the database the changeset is replayed on
    db1,          \* round trip: the database state the changeset was recorded up to
    dbc,          \* round trip: the copy of db0 the compiled SQL is executed on
    call,         \* history: the value and the policy of the last valueString call
    text          \* history: what the last valueString call returned

vars == <<pc, conflict, AlwaysUseBlob, delivered, ColumnNames, tableIDs, tableOps,
          sql, err, emitted, last, nNext, nBuild, queries, rerun, db0, db1, dbc, call, text>>

(***************************************************************************)
(* Bounds.                                                                 *)
(***************************************************************************)
MaxOps == 3
MaxExampleOps == 4
MaxCalls == 4

(***************************************************************************)
(* sqlite.Value.  type "nil" is the Value with no pointer (IsNil() true):  *)
(* the decoder reports no value for the column.  type "null" is a          *)
(* recorded SQL NULL.  A float holds f halves (f = 3 is 1.5, f = 10 is     *)
(* 5.0); a blob holds its bytes.                                           *)
(***************************************************************************)
Nil == [type |-> "nil", i |-> 0, s |-> "", b |-> <<>>]
Null == [type |-> "null", i |-> 0, s |-> "", b |-> <<>>]
Integer(n) == [type |-> "integer", i |-> n, s |-> "", b |-> <<>>]
Float(halves) == [type |-> "float", i |-> halves, s |-> "", b |-> <<>>]
Text(str) == [type |-> "text", i |-> 0, s |-> str, b |-> <<>>]
Blob(bytes) == [type |-> "blob", i |-> 0, s |-> "", b |-> bytes]

\* a plausible slip: a recorded SQL NULL taken for "no value"
IsNil_conflatesNull(v) == v.type \in {"nil", "null"}

\* sqlite.Value.IsNil (called at changeset.go:631, 677)
IsNil(v) == v.type = "nil"

(***************************************************************************)
(* Text helpers: the Go library functions the code formats with.           *)
(***************************************************************************)
Digit(d) == SubSeq("0123456789", d + 1, d + 1)

RECURSIVE NatToStr(_)
NatToStr(n) == IF n < 10 THEN Digit(n) ELSE NatToStr(n \div 10) \o Digit(n % 10)

\* fmt.Sprintf("%v", int64)
IntToStr(n) == IF n < 0 THEN "-" \o NatToStr(-n) ELSE NatToStr(n)

\* fmt.Sprintf("%v", float64): the shortest decimal text, so a whole number
\* prints without a fraction (5.0 is "5").  Non-negative halves only.
FloatToStr(halves) ==
    IF halves % 2 = 0 THEN NatToStr(halves \div 2)
    ELSE NatToStr(halves \div 2) \o ".5"

HexDigit(d) == SubSeq("0123456789ABCDEF", d + 1, d + 1)

\* fmt.Sprintf("%X", []byte)
RECURSIVE HexUpper(_)
HexUpper(bytes) ==
    IF bytes = <<>> THEN ""
    ELSE HexDigit(Head(bytes) \div 16) \o HexDigit(Head(bytes) % 16) \o HexUpper(Tail(bytes))

\* strings.ReplaceAll(s, old, new) for a one-character old
RECURSIVE ReplaceAll(_, _, _)
ReplaceAll(s, old, new) ==
    IF s = "" THEN ""
    ELSE (IF Head(s) = old THEN new ELSE Head(s)) \o ReplaceAll(Tail(s), old, new)

\* strings.TrimSuffix
TrimSuffix(s, suffix) ==
    IF Len(s) >= Len(suffix) /\ SubSeq(s, Len(s) - Len(suffix) + 1, Len(s)) = suffix
    THEN SubSeq(s, 1, Len(s) - Len(suffix))
    ELSE s

\* fmt.Sprintf("%q", s): a Go string literal; backslash and double quote are escaped
GoQuote(s) == "\"" \o ReplaceAll(ReplaceAll(s, "\\", "\\\\"), "\"", "\\\"") \o "\""

\* the bytes of the characters the model's texts are made of (ASCII)
CharCodes ==
    [c \in {"a","b","c","d","e","g","h","l","o","r","w","y","x"," ","'","*","/",";",
            "O","B","i","n"} |->
        CASE c = "a" -> 97  [] c = "b" -> 98  [] c = "c" -> 99  [] c = "d" -> 100
          [] c = "e" -> 101 [] c = "g" -> 103 [] c = "h" -> 104 [] c = "l" -> 108
          [] c = "o" -> 111 [] c = "r" -> 114 [] c = "w" -> 119 [] c = "y" -> 121
          [] c = "x" -> 120 [] c = " " -> 32  [] c = "'" -> 39  [] c = "*" -> 42
          [] c = "/" -> 47  [] c = ";" -> 59  [] c = "O" -> 79  [] c = "B" -> 66
          [] c = "i" -> 105 [] c = "n" -> 110]

RECURSIVE TextBytes(_)
TextBytes(s) == IF s = "" THEN <<>> ELSE <<CharCodes[Head(s)]>> \o TextBytes(Tail(s))

\* sqlite.Value.Blob(): the raw bytes of a blob or of a text
ValueBlob(v) == IF v.type = "text" THEN TextBytes(v.s) ELSE v.b

(***************************************************************************)
(* valueString (changeset.go:749-768).  Only the five value types of the   *)
(* switch are passed: a nil Value is skipped by the callers or is not in   *)
(* the input.                                                              *)
(***************************************************************************)
\* a plausible slip: the switch is not consulted
valueString_ignoresSwitch(val, alwaysBlob) ==
    CASE val.type = "integer" -> IntToStr(val.i)
      [] val.type = "float" -> FloatToStr(val.i)
      [] val.type = "text" -> "'" \o ReplaceAll(val.s, "'", "''") \o "'"
      [] val.type = "blob" -> "X'" \o HexUpper(ValueBlob(val)) \o "'"
      [] OTHER -> "NULL"

valueString(val, alwaysBlob) ==
    CASE val.type = "integer" -> IntToStr(val.i)
      [] val.type = "float" -> FloatToStr(val.i)
      [] val.type = "text" /\ ~alwaysBlob -> "'" \o ReplaceAll(val.s, "'", "''") \o "'"
      [] val.type = "text" /\ alwaysBlob -> "X'" \o HexUpper(ValueBlob(val)) \o "'"
      [] val.type = "blob" -> "X'" \o HexUpper(ValueBlob(val)) \o "'"
      [] OTHER -> "NULL"

(***************************************************************************)
(* The decoder iterator (sqlite.ChangesetIter).  An operation is the row   *)
(* the iterator stands on: [tbl, op, pk, old, new, conf], columns numbered *)
(* from 1.  A fault [at, col] makes one call of the iteration fail: at is  *)
(* "none", "op", "schema", "pk", or an accessor "old", "new", "conflict"   *)
(* failing at column col.                                                  *)
(***************************************************************************)
DecodeError == "DecodeError"
SchemaLookupError == "SchemaLookupError"

NoFault == [at |-> "none", col |-> 0]

iterPK(o, fault) ==
    IF fault.at = "pk" THEN [err |-> DecodeError, pk |-> <<>>]
    ELSE [err |-> "nil", pk |-> o.pk]

iterOld(o, i, fault) ==
    IF fault.at = "old" /\ fault.col = i THEN [err |-> DecodeError, v |-> Nil]
    ELSE [err |-> "nil", v |-> o.old[i]]

iterNew(o, i, fault) ==
    IF fault.at = "new" /\ fault.col = i THEN [err |-> DecodeError, v |-> Nil]
    ELSE [err |-> "nil", v |-> o.new[i]]

iterConflict(o, i, fault) ==
    IF fault.at = "conflict" /\ fault.col = i THEN [err |-> DecodeError, v |-> Nil]
    ELSE [err |-> "nil", v |-> o.conf[i]]

(***************************************************************************)
(* What a builder returns: the error, the statement line, and (history)    *)
(* the lists the line was joined from, the accessor calls made, the column *)
(* names it was given, whether a call it made failed, and the number of    *)
(* the operation in the stream.                                            *)
(***************************************************************************)
EmptyStmt ==
    [err |-> "nil", line |-> "", op |-> "", tbl |-> "",
     cols |-> "", vals |-> "", colList |-> <<>>, valList |-> <<>>,
     pkCols |-> "", pkVals |-> "", pkColList |-> <<>>, pkValList |-> <<>>,
     oldCols |-> "", oldVals |-> "", oldColList |-> <<>>, oldValList |-> <<>>,
     conf |-> "", confList |-> <<>>, reads |-> <<>>, names |-> <<>>,
     faulted |-> FALSE, seq |-> 0]

\* return "", err
Failed(acc, e) ==
    [EmptyStmt EXCEPT !.err = e, !.op = acc.op, !.tbl = acc.tbl, !.reads = acc.reads,
                      !.names = acc.names, !.faulted = TRUE]

\* the accumulator of a builder when a call it made has failed with e
Fail(acc, e) == [acc EXCEPT !.err = e, !.faulted = TRUE]

\* a plausible slip: the primary-key mask is not consulted
isPK_never(pk, i) == FALSE

\* pk[i] (changeset.go:668, 721)
isPK(pk, i) == pk[i]

_COMMA == ", "

Read(acc, what, i) == [acc EXCEPT !.reads = Append(@, <<what, i>>)]

\* cols += col + ", " ; vals += val + ", "
AddCol(acc, col, val) ==
    [acc EXCEPT !.cols = @ \o col \o _COMMA,
                !.vals = @ \o val \o _COMMA,
                !.colList = Append(@, col),
                !.valList = Append(@, val)]

\* a plausible slip: the key column is put in front of the ones collected so far
AddPK_prepend(acc, col, val) ==
    [acc EXCEPT !.pkCols = col \o _COMMA \o @,
                !.pkVals = val \o _COMMA \o @,
                !.pkColList = <<col>> \o @,
                !.pkValList = <<val>> \o @]

\* pkCols += col + ", " ; pkVals += val + ", "
AddPK(acc, col, val) ==
    [acc EXCEPT !.pkCols = @ \o col \o _COMMA,
                !.pkVals = @ \o val \o _COMMA,
                !.pkColList = Append(@, col),
                !.pkValList = Append(@, val)]

\* oldCols += col + ", " ; oldVals += val + ", "
AddOld(acc, col, val) ==
    [acc EXCEPT !.oldCols = @ \o col \o _COMMA,
                !.oldVals = @ \o val \o _COMMA,
                !.oldColList = Append(@, col),
                !.oldValList = Append(@, val)]

\* oldVals += val + ", "
AddOldVal(acc, val) ==
    [acc EXCEPT !.oldVals = @ \o val \o _COMMA,
                !.oldValList = Append(@, val)]

\* a plausible slip: the conflict value is put in front of the ones collected so far
AddConf_prepend(acc, val) ==
    [acc EXCEPT !.conf = val \o _COMMA \o @,
                !.confList = <<val>> \o @]

\* conf += val + ", "
AddConf(acc, val) ==
    [acc EXCEPT !.conf = @ \o val \o _COMMA,
                !.confList = Append(@, val)]

Trimmed(acc) ==
    [acc EXCEPT !.cols = TrimSuffix(@, _COMMA), !.vals = TrimSuffix(@, _COMMA),
                !.pkCols = TrimSuffix(@, _COMMA), !.pkVals = TrimSuffix(@, _COMMA),
                !.oldCols = TrimSuffix(@, _COMMA), !.oldVals = TrimSuffix(@, _COMMA),
                !.conf = TrimSuffix(@, _COMMA)]

(***************************************************************************)
(* buildInsert (changeset.go:621-652).  cx = [o, names, conflict, ab,      *)
(* fault]; the loop runs over the column names.                            *)
(***************************************************************************)
RECURSIVE insertLoop(_, _, _)
insertLoop(cx, i, acc) ==
    IF i > Len(cx.names) THEN acc
    ELSE LET n == iterNew(cx.o, i, cx.fault)
             a1 == Read(acc, "new", i)
         IN  IF n.err # "nil" THEN Fail(a1, n.err)
             ELSE IF IsNil(n.v) THEN insertLoop(cx, i + 1, a1)
             ELSE LET a2 == AddCol(a1, GoQuote(cx.names[i]), valueString(n.v, cx.ab))
                  IN  IF ~cx.conflict THEN insertLoop(cx, i + 1, a2)
                      ELSE LET c == iterConflict(cx.o, i, cx.fault)
                               a3 == Read(a2, "conflict", i)
                           IN  IF c.err # "nil" THEN Fail(a3, c.err)
                               ELSE insertLoop(cx, i + 1, AddConf(a3, valueString(c.v, cx.ab)))

buildInsert(cx) ==
    LET acc == insertLoop(cx, 1, [EmptyStmt EXCEPT !.op = "INSERT", !.tbl = cx.o.tbl, !.names = cx.names])
        t == Trimmed(acc)
        conf == IF cx.conflict THEN " /* conflict: (" \o t.conf \o ") */" ELSE t.conf
    IN  IF acc.err # "nil" THEN Failed(acc, acc.err)
        ELSE [t EXCEPT !.conf = conf,
                       !.line = "INSERT INTO " \o GoQuote(cx.o.tbl) \o " (" \o t.cols
                                \o ") VALUES (" \o t.vals \o ")" \o conf \o ";\n"]

(***************************************************************************)
(* buildUpdate (changeset.go:654-703).                                     *)
(***************************************************************************)
RECURSIVE updateLoop(_, _, _, _)
updateLoop(cx, pk, i, acc) ==
    IF i > Len(cx.names) THEN acc
    ELSE LET vOld == iterOld(cx.o, i, cx.fault)
             a1 == Read(acc, "old", i)
         IN  IF vOld.err # "nil" THEN Fail(a1, vOld.err)
             ELSE IF isPK(pk, i)
             THEN updateLoop(cx, pk, i + 1,
                             AddPK(a1, GoQuote(cx.names[i]), valueString(vOld.v, cx.ab)))
             ELSE LET vNew == iterNew(cx.o, i, cx.fault)
                      a2 == Read(a1, "new", i)
                  IN  IF vNew.err # "nil" THEN Fail(a2, vNew.err)
                      ELSE IF IsNil(vNew.v) THEN updateLoop(cx, pk, i + 1, a2)
                      ELSE LET a3 == AddOldVal(AddCol(a2, GoQuote(cx.names[i]), valueString(vNew.v, cx.ab)),
                                            valueString(vOld.v, cx.ab))
                           IN  IF ~cx.conflict THEN updateLoop(cx, pk, i + 1, a3)
                               ELSE LET c == iterConflict(cx.o, i, cx.fault)
                                        a4 == Read(a3, "conflict", i)
                                    IN  IF c.err # "nil" THEN Fail(a4, c.err)
                                        ELSE updateLoop(cx, pk, i + 1, AddConf(a4, valueString(c.v, cx.ab)))

buildUpdate(cx) ==
    LET start == [EmptyStmt EXCEPT !.op = "UPDATE", !.tbl = cx.o.tbl, !.names = cx.names]
        p == iterPK(cx.o, cx.fault)
        acc == updateLoop(cx, p.pk, 1, Read(start, "pk", 0))
        t == Trimmed(acc)
        conf == IF cx.conflict THEN "conflict: (" \o t.conf \o ") " ELSE t.conf
    IN  IF p.err # "nil" THEN Failed(Read(start, "pk", 0), p.err)
        ELSE IF acc.err # "nil" THEN Failed(acc, acc.err)
        ELSE [t EXCEPT !.conf = conf,
                       !.line = "UPDATE " \o GoQuote(cx.o.tbl) \o " SET (" \o t.cols \o ") = ("
                                \o t.vals \o ") WHERE (" \o t.pkCols \o ") = (" \o t.pkVals
                                \o ") /* old: (" \o t.oldVals \o ") " \o conf \o "*/;\n"]

(***************************************************************************)
(* buildDelete (changeset.go:705-747).                                     *)
(***************************************************************************)
RECURSIVE deleteLoop(_, _, _, _)
deleteLoop(cx, pk, i, acc) ==
    IF i > Len(cx.names) THEN acc
    ELSE LET v == iterOld(cx.o, i, cx.fault)
             a1 == Read(acc, "old", i)
         IN  IF v.err # "nil" THEN Fail(a1, v.err)
             ELSE IF isPK(pk, i)
             THEN deleteLoop(cx, pk, i + 1,
                             AddPK(a1, GoQuote(cx.names[i]), valueString(v.v, cx.ab)))
             ELSE LET a2 == AddOld(a1, GoQuote(cx.names[i]), valueString(v.v, cx.ab))
                  IN  IF ~cx.conflict THEN deleteLoop(cx, pk, i + 1, a2)
                      ELSE LET c == iterConflict(cx.o, i, cx.fault)
                               a3 == Read(a2, "conflict", i)
                           IN  IF c.err # "nil" THEN Fail(a3, c.err)
                               ELSE deleteLoop(cx, pk, i + 1, AddConf(a3, valueString(c.v, cx.ab)))

buildDelete(cx) ==
    LET start == [EmptyStmt EXCEPT !.op = "DELETE", !.tbl = cx.o.tbl, !.names = cx.names]
        p == iterPK(cx.o, cx.fault)
        acc == deleteLoop(cx, p.pk, 1, Read(start, "pk", 0))
        t == Trimmed(acc)
        conf == IF cx.conflict THEN "conflict: (" \o t.conf \o ") " ELSE t.conf
    IN  IF p.err # "nil" THEN Failed(Read(start, "pk", 0), p.err)
        ELSE IF acc.err # "nil" THEN Failed(acc, acc.err)
        ELSE [t EXCEPT !.conf = conf,
                       !.line = "DELETE FROM " \o GoQuote(cx.o.tbl) \o " WHERE (" \o t.pkCols
                                \o ") = (" \o t.pkVals \o ") /* (" \o t.oldCols \o ") = ("
                                \o t.oldVals \o ") " \o conf \o "*/;\n"]

(***************************************************************************)
(* The schema collaborator: PRAGMA TABLE_INFO run by sqlitex.Exec          *)
(* (changeset.go:771-780).  The tables are those of the test               *)
(* (unnamed/part_000:72-82); for a table the database does not have the    *)
(* pragma returns no row and no error.                                     *)
(***************************************************************************)
TableInfo(tbl) ==
    CASE tbl = "t" -> <<"a", "b", "c", "d">>
      [] tbl = "t2" -> <<"a", "b">>
      [] OTHER -> <<>>

(***************************************************************************)
(* _Conn.GetColNames (changeset.go:770-786).  Returns the names, the       *)
(* error, the map afterwards and whether the database was queried.         *)
(***************************************************************************)
\* a plausible slip: a stored list is recognised by its length, not by the map's ok
GetColNames_byLength(cache, tbl, fault) ==
    IF tbl \in DOMAIN cache /\ Len(cache[tbl]) > 0
    THEN [names |-> cache[tbl], err |-> "nil", cache |-> cache, queried |-> FALSE]
    ELSE IF fault.at = "schema"
    THEN [names |-> <<>>, err |-> SchemaLookupError, cache |-> cache, queried |-> TRUE]
    ELSE [names |-> TableInfo(tbl), err |-> "nil",
          cache |-> [x \in DOMAIN cache \cup {tbl} |-> IF x = tbl THEN TableInfo(tbl) ELSE cache[x]],
          queried |-> TRUE]

GetColNames(cache, tbl, fault) ==
    IF tbl \in DOMAIN cache
    THEN [names |-> cache[tbl], err |-> "nil", cache |-> cache, queried |-> FALSE]
    ELSE IF fault.at = "schema"
    THEN [names |-> <<>>, err |-> SchemaLookupError, cache |-> cache, queried |-> TRUE]
    ELSE [names |-> TableInfo(tbl), err |-> "nil",
          cache |-> cache @@ (tbl :> TableInfo(tbl)), queried |-> TRUE]

(***************************************************************************)
(* _Conn.BuildSQL (changeset.go:597-614).  Returns the builder's result    *)
(* with the map afterwards and whether the database was queried.           *)
(***************************************************************************)
BuildSQL(cache, o, cf, ab, fault) ==
    LET g == GetColNames(cache, o.tbl, fault)
        cx == [o |-> o, names |-> g.names, conflict |-> cf, ab |-> ab, fault |-> fault]
        start == [EmptyStmt EXCEPT !.op = o.op, !.tbl = o.tbl]
    IN  [cache |-> g.cache, queried |-> g.queried, called |-> g.err = "nil",
         stmt |-> IF g.err # "nil" THEN Failed(start, g.err)
                  ELSE CASE o.op = "INSERT" -> buildInsert(cx)
                         [] o.op = "UPDATE" -> buildUpdate(cx)
                         [] o.op = "DELETE" -> buildDelete(cx)]

\* a plausible slip: the indices of two kinds exchanged
opIndex_swapped(op) == CASE op = "INSERT" -> 1 [] op = "UPDATE" -> 0 [] op = "DELETE" -> 2

\* opIndex (changeset.go:515-519)
opIndex(op) == CASE op = "INSERT" -> 0 [] op = "UPDATE" -> 1 [] op = "DELETE" -> 2

(***************************************************************************)
(* The bucket append of the loop (changeset.go:567-574).                   *)
(***************************************************************************)
\* a plausible slip: every statement opens a block of its own, so the output is chronological
AppendLine_ungrouped(ids, ops, tbl, op, sqlLine) ==
    [ids |-> [x \in DOMAIN ids \cup {tbl} |-> IF x = tbl THEN Len(ops) ELSE ids[x]],
     ops |-> Append(ops, [k \in 1..3 |-> IF k = opIndex(op) + 1 THEN <<sqlLine>> ELSE <<>>])]

\* a plausible slip: the table is given a new index although it has one
AppendLine_alwaysNew(ids, ops, tbl, op, sqlLine) ==
    LET tblID == Len(ops)
        ids1 == [t \in DOMAIN ids \cup {tbl} |-> IF t = tbl THEN tblID ELSE ids[t]]
        ops1 == Append(ops, <<<<>>, <<>>, <<>>>>)
    IN  [ids |-> ids1,
         ops |-> [ops1 EXCEPT ![tblID + 1][opIndex(op) + 1] = Append(@, sqlLine)]]

AppendLine(ids, ops, tbl, op, sqlLine) ==
    LET ok == tbl \in DOMAIN ids
        tblID == IF ok THEN ids[tbl] ELSE Len(ops)
        ids1 == IF ok THEN ids ELSE ids @@ (tbl :> tblID)
        ops1 == IF ok THEN ops ELSE Append(ops, <<<<>>, <<>>, <<>>>>)
        opID == opIndex(op)
    IN  [ids |-> ids1,
         ops |-> [ops1 EXCEPT ![tblID + 1][opID + 1] = Append(@, sqlLine)]]

(***************************************************************************)
(* The final loops (changeset.go:577-588): the statements in the order     *)
(* they are concatenated, and the text.                                    *)
(***************************************************************************)
RECURSIVE Lines(_)
Lines(stmts) == IF stmts = <<>> THEN "" ELSE Head(stmts).line \o Lines(Tail(stmts))

RECURSIVE EmitOrder(_)
EmitOrder(ops) ==
    IF ops = <<>> THEN <<>>
    ELSE Head(ops)[1] \o Head(ops)[2] \o Head(ops)[3] \o EmitOrder(Tail(ops))

RECURSIVE JoinTables(_)
JoinTables(ops) ==
    IF ops = <<>> THEN ""
    ELSE Lines(Head(ops)[1]) \o Lines(Head(ops)[2]) \o Lines(Head(ops)[3]) \o "\n"
         \o JoinTables(Tail(ops))

\* a plausible slip: the text is returned as the final loops left it
FinalSQL_untrimmed(ops) == JoinTables(ops)

FinalSQL(ops) == TrimSuffix(JoinTables(ops), "\n")

(***************************************************************************)
(* The input of the model: the operations a decoder may deliver and the    *)
(* faults a call may meet.                                                 *)
(***************************************************************************)
NoRow4 == <<Nil, Nil, Nil, Nil>>
NoRow2 == <<Nil, Nil>>
PKt == <<TRUE, TRUE, FALSE, FALSE>>
PKt2 == <<TRUE, FALSE>>
Conf4 == <<Integer(9), Integer(9), Text("x"), Null>>
Conf2 == <<Integer(9), Blob(<<0>>)>>

Op(tbl, op, pk, old, new, conf) ==
    [tbl |-> tbl, op |-> op, pk |-> pk, old |-> old, new |-> new, conf |-> conf]

InsHello == Op("t", "INSERT", PKt, NoRow4, <<Integer(1), Integer(1), Text("hello"), Nil>>, Conf4)
UpdHello == Op("t", "UPDATE", PKt, <<Integer(1), Integer(1), Text("hello"), Nil>>,
               <<Nil, Nil, Text("hello world"), Nil>>, Conf4)
InsGoodbye == Op("t", "INSERT", PKt, NoRow4,
                 <<Integer(3), Integer(3), Text("goodbye world"), Nil>>, Conf4)
DelFive == Op("t", "DELETE", PKt, <<Integer(5), Integer(5), Text("world"), Float(3)>>, NoRow4, Conf4)
InsNull == Op("t", "INSERT", PKt, NoRow4, <<Integer(4), Integer(4), Null, Nil>>, Conf4)
UpdNull == Op("t", "UPDATE", PKt, <<Integer(2), Integer(2), Text("world"), Float(3)>>,
              <<Nil, Nil, Text("o'y"), Null>>, Conf4)
InsBlob == Op("t2", "INSERT", PKt2, NoRow2, <<Integer(0), Blob(<<255, 255, 255>>)>>, Conf2)
UpdBlob == Op("t2", "UPDATE", PKt2, <<Integer(1), Blob(<<1, 255>>)>>,
              <<Integer(7), Blob(<<0, 0>>)>>, Conf2)
DelBlob == Op("t2", "DELETE", PKt2, <<Integer(2), Blob(<<2, 255>>)>>, NoRow2, Conf2)
InsUnknown == Op("zz", "INSERT", <<TRUE>>, <<Nil>>, <<Integer(9)>>, <<Null>>)

Ops == {InsHello, UpdHello, InsGoodbye, DelFive, InsNull, UpdNull,
        InsBlob, UpdBlob, DelBlob, InsUnknown}

Faults ==
    {NoFault}
    \cup {[at |-> a, col |-> 0] : a \in {"op", "schema", "pk"}}
    \cup {[at |-> a, col |-> c] : a \in {"old", "new", "conflict"}, c \in {1, 3}}

(***************************************************************************)
(* One pass of the for loop of ChangesetIterToSQL after iter.Next has      *)
(* returned a row (changeset.go:556-574): the values of the function's     *)
(* variables afterwards.  loc = [ColumnNames, tableIDs, tableOps, sql,     *)
(* err]; n is the number of the operation in the stream.                   *)
(***************************************************************************)
LoopBody(loc, o, n, cf, ab, fault) ==
    LET b == BuildSQL(loc.ColumnNames, o, cf, ab, fault)
        sqlLine == [b.stmt EXCEPT !.seq = n]
        a == AppendLine(loc.tableIDs, loc.tableOps, o.tbl, o.op, sqlLine)
    IN  IF fault.at = "op"
        THEN [loc EXCEPT !.err = DecodeError] @@
             [built |-> FALSE, queried |-> FALSE, last |-> EmptyStmt]
        ELSE IF b.stmt.err # "nil"
        THEN [loc EXCEPT !.err = b.stmt.err, !.ColumnNames = b.cache] @@
             [built |-> TRUE, queried |-> b.queried, last |-> sqlLine]
        ELSE [loc EXCEPT !.ColumnNames = b.cache, !.tableIDs = a.ids, !.tableOps = a.ops] @@
             [built |-> TRUE, queried |-> b.queried, last |-> sqlLine]

Empty == <<>>

\* no valueString call observed yet
NoCall == [val |-> Nil, ab |-> FALSE]

Locals == [ColumnNames |-> ColumnNames, tableIDs |-> tableIDs, tableOps |-> tableOps,
           sql |-> sql, err |-> err]

(***************************************************************************)
(* Actions.                                                                *)
(***************************************************************************)
Init ==
    /\ pc = "idle"
    /\ conflict = FALSE
    /\ AlwaysUseBlob = FALSE
    /\ delivered = <<>>
    /\ ColumnNames = Empty
    /\ tableIDs = Empty
    /\ tableOps = <<>>
    /\ sql = ""
    /\ err = "nil"
    /\ emitted = <<>>
    /\ last = EmptyStmt
    /\ nNext = 0
    /\ nBuild = 0
    /\ queries = <<>>
    /\ rerun = FALSE
    /\ db0 = Empty
    /\ db1 = Empty
    /\ dbc = Empty
    /\ call = NoCall
    /\ text = ""

\* the state of a call at its first statement (changeset.go:543-546)
Enter(cf, e) ==
    /\ conflict' = cf
    /\ delivered' = <<>>
    /\ ColumnNames' = Empty
    /\ tableIDs' = Empty
    /\ tableOps' = <<>>
    /\ sql' = ""
    /\ err' = e
    /\ emitted' = <<>>
    /\ last' = EmptyStmt
    /\ nNext' = 0
    /\ nBuild' = 0
    /\ queries' = <<>>

\* ToSQL (changeset.go:532-539): ChangesetIterStart succeeds or fails
ToSQL ==
    /\ pc = "idle"
    /\ Enter(FALSE, "nil")
    /\ pc' = "loop"
    /\ UNCHANGED <<AlwaysUseBlob, rerun, db0, db1, dbc, call, text>>

ToSQLStartFails ==
    /\ pc = "idle"
    /\ Enter(FALSE, DecodeError)
    /\ pc' = "done"
    /\ UNCHANGED <<AlwaysUseBlob, rerun, db0, db1, dbc, call, text>>

\* ChangesetIterToSQL called with an iterator (changeset.go:541-546)
ChangesetIterToSQL ==
    /\ pc = "idle"
    /\ \E cf \in BOOLEAN : Enter(cf, "nil")
    /\ pc' = "loop"
    /\ UNCHANGED <<AlwaysUseBlob, rerun, db0, db1, dbc, call, text>>

\* iter.Next fails (changeset.go:549-552)
NextFails ==
    /\ pc = "loop"
    /\ nNext' = nNext + 1
    /\ err' = DecodeError
    /\ pc' = "done"
    /\ delivered' = <<>>
    /\ tableIDs' = Empty
    /\ tableOps' = <<>>
    /\ UNCHANGED <<conflict, AlwaysUseBlob, ColumnNames, sql, emitted, last, nBuild,
                   queries, rerun, db0, db1, dbc, call, text>>

\* the effect of one pass of the loop on the state
Pass(o, r) ==
    /\ nNext' = nNext + 1
    /\ nBuild' = IF r.built THEN nBuild + 1 ELSE nBuild
    /\ queries' = IF r.queried THEN Append(queries, o.tbl) ELSE queries
    /\ last' = r.last
    /\ ColumnNames' = r.ColumnNames
    /\ sql' = r.sql
    /\ err' = r.err
    /\ IF r.err # "nil"
       THEN /\ pc' = "done"
            /\ delivered' = <<>>
            /\ tableIDs' = Empty
            /\ tableOps' = <<>>
       ELSE /\ pc' = "loop"
            /\ delivered' = Append(delivered, o)
            /\ tableIDs' = r.tableIDs
            /\ tableOps' = r.tableOps
    /\ UNCHANGED <<conflict, AlwaysUseBlob, emitted, rerun, db0, db1, dbc, call, text>>

\* iter.Next returns a row and the loop body runs (changeset.go:547-575)
Step ==
    /\ pc = "loop"
    /\ Len(delivered) < MaxOps
    /\ \E o \in Ops, fault \in Faults :
          Pass(o, LoopBody(Locals, o, Len(delivered) + 1, conflict, AlwaysUseBlob, fault))

\* the same, the decoder delivering operations of the example of the grouping
ExampleOps == {InsHello, UpdHello, InsGoodbye, DelFive}

StepExample ==
    /\ pc = "loop"
    /\ Len(delivered) < MaxExampleOps
    /\ \E o \in ExampleOps, fault \in Faults :
          Pass(o, LoopBody(Locals, o, Len(delivered) + 1, conflict, AlwaysUseBlob, fault))

\* iter.Next returns no row: the final loops and the return (changeset.go:553-555, 577-589)
Finish ==
    /\ pc = "loop"
    /\ nNext' = nNext + 1
    /\ emitted' = EmitOrder(tableOps)
    /\ sql' = FinalSQL(tableOps)
    /\ pc' = "done"
    /\ UNCHANGED <<conflict, AlwaysUseBlob, delivered, ColumnNames, tableIDs, tableOps, err,
                   last, nBuild, queries, rerun, db0, db1, dbc, call, text>>

\* the caller compiles once more
Again ==
    /\ pc = "done"
    /\ ~rerun
    /\ rerun' = TRUE
    /\ pc' = "idle"
    /\ Enter(FALSE, "nil")
    /\ UNCHANGED <<AlwaysUseBlob, db0, db1, dbc, call, text>>

Next ==
    \/ ToSQL
    \/ ToSQLStartFails
    \/ ChangesetIterToSQL
    \/ NextFails
    \/ Step
    \/ Finish
    \/ Again

Spec == Init /\ [][Next]_vars

NextExample ==
    \/ ToSQL
    \/ ToSQLStartFails
    \/ ChangesetIterToSQL
    \/ NextFails
    \/ StepExample
    \/ Finish
    \/ Again

SpecExample == Init /\ [][NextExample]_vars

(***************************************************************************)
(* The second revision of the package (changeset.go:239-476).  Its ToSQL   *)
(* holds the loop itself; the loop, the bucket append, the final loops and *)
(* opIndex read as in the current revision (changeset.go:278-320, 251-255),*)
(* without the conflict parameter.                                         *)
(***************************************************************************)
\* _COLUMNF = `"%s"` (changeset.go:348)
Quoted_r2(name) == "\"" \o name \o "\""

\* valueString (changeset.go:442-458)
valueString_r2(val) ==
    CASE val.type = "integer" -> IntToStr(val.i)
      [] val.type = "float" -> FloatToStr(val.i)
      [] val.type = "blob" -> "X'" \o HexUpper(ValueBlob(val)) \o "'"
      [] val.type = "text" -> "'" \o ReplaceAll(val.s, "'", "''") \o "'"
      [] OTHER -> "NULL"

\* buildInsert (changeset.go:352-371): a failing iter.New ends the loop with return "", nil
RECURSIVE insertLoop_r2(_, _, _)
insertLoop_r2(cx, i, acc) ==
    IF i > Len(cx.names) THEN acc
    ELSE LET n == iterNew(cx.o, i, cx.fault)
             a1 == Read(acc, "new", i)
         IN  IF n.err # "nil" THEN [a1 EXCEPT !.faulted = TRUE]
             ELSE IF IsNil(n.v) THEN insertLoop_r2(cx, i + 1, a1)
             ELSE insertLoop_r2(cx, i + 1,
                                AddCol(a1, Quoted_r2(cx.names[i]), valueString_r2(n.v)))

buildInsert_r2(cx) ==
    LET start == [EmptyStmt EXCEPT !.op = "INSERT", !.tbl = cx.o.tbl, !.names = cx.names]
        acc == insertLoop_r2(cx, 1, start)
        t == Trimmed(acc)
    IN  IF acc.faulted
        THEN [start EXCEPT !.reads = acc.reads, !.faulted = TRUE]
        ELSE [t EXCEPT !.line = "INSERT INTO \"" \o cx.o.tbl \o "\" (" \o t.cols
                                \o ") VALUES (" \o t.vals \o ");\n"]

\* buildUpdate (changeset.go:373-409)
RECURSIVE updateLoop_r2(_, _, _, _)
updateLoop_r2(cx, pk, i, acc) ==
    IF i > Len(cx.names) THEN acc
    ELSE LET vOld == iterOld(cx.o, i, cx.fault)
             a1 == Read(acc, "old", i)
         IN  IF vOld.err # "nil" THEN Fail(a1, vOld.err)
             ELSE IF isPK(pk, i)
             THEN updateLoop_r2(cx, pk, i + 1,
                                AddPK(a1, Quoted_r2(cx.names[i]), valueString_r2(vOld.v)))
             ELSE LET vNew == iterNew(cx.o, i, cx.fault)
                      a2 == Read(a1, "new", i)
                  IN  IF vNew.err # "nil" THEN Fail(a2, vNew.err)
                      ELSE IF IsNil(vNew.v) THEN updateLoop_r2(cx, pk, i + 1, a2)
                      ELSE updateLoop_r2(cx, pk, i + 1,
                               AddOldVal(AddCol(a2, Quoted_r2(cx.names[i]), valueString_r2(vNew.v)),
                                         valueString_r2(vOld.v)))

buildUpdate_r2(cx) ==
    LET start == [EmptyStmt EXCEPT !.op = "UPDATE", !.tbl = cx.o.tbl, !.names = cx.names]
        p == iterPK(cx.o, cx.fault)
        acc == updateLoop_r2(cx, p.pk, 1, Read(start, "pk", 0))
        t == Trimmed(acc)
    IN  IF p.err # "nil" THEN Failed(Read(start, "pk", 0), p.err)
        ELSE IF acc.err # "nil" THEN Failed(acc, acc.err)
        ELSE [t EXCEPT !.line = "UPDATE \"" \o cx.o.tbl \o "\" SET (" \o t.cols \o ") = ("
                                \o t.vals \o ") WHERE (" \o t.pkCols \o ") = (" \o t.pkVals
                                \o ") /* (" \o t.oldVals \o ") */;\n"]

\* buildDelete (changeset.go:411-440)
RECURSIVE deleteLoop_r2(_, _, _, _)
deleteLoop_r2(cx, pk, i, acc) ==
    IF i > Len(cx.names) THEN acc
    ELSE LET v == iterOld(cx.o, i, cx.fault)
             a1 == Read(acc, "old", i)
         IN  IF v.err # "nil" THEN Fail(a1, v.err)
             ELSE IF isPK(pk, i)
             THEN deleteLoop_r2(cx, pk, i + 1,
                                AddPK(a1, Quoted_r2(cx.names[i]), valueString_r2(v.v)))
             ELSE deleteLoop_r2(cx, pk, i + 1,
                                AddOld(a1, Quoted_r2(cx.names[i]), valueString_r2(v.v)))

buildDelete_r2(cx) ==
    LET start == [EmptyStmt EXCEPT !.op = "DELETE", !.tbl = cx.o.tbl, !.names = cx.names]
        p == iterPK(cx.o, cx.fault)
        acc == deleteLoop_r2(cx, p.pk, 1, Read(start, "pk", 0))
        t == Trimmed(acc)
    IN  IF p.err # "nil" THEN Failed(Read(start, "pk", 0), p.err)
        ELSE IF acc.err # "nil" THEN Failed(acc, acc.err)
        ELSE [t EXCEPT !.line = "DELETE FROM \"" \o cx.o.tbl \o "\" WHERE (" \o t.pkCols
                                \o ") = (" \o t.pkVals \o ") /* (" \o t.oldCols \o ") = ("
                                \o t.oldVals \o ") */;\n"]

\* _Conn.GetColNames (changeset.go:460-476)
GetColNames_r2(cache, tbl, fault) ==
    IF tbl \in DOMAIN cache
    THEN [names |-> cache[tbl], err |-> "nil", cache |-> cache, queried |-> FALSE]
    ELSE IF fault.at = "schema"
    THEN [names |-> <<>>, err |-> SchemaLookupError, cache |-> cache, queried |-> TRUE]
    ELSE [names |-> TableInfo(tbl), err |-> "nil",
          cache |-> cache @@ (tbl :> TableInfo(tbl)), queried |-> TRUE]

\* _Conn.BuildSQL (changeset.go:328-345)
BuildSQL_r2(cache, o, fault) ==
    LET g == GetColNames_r2(cache, o.tbl, fault)
        cx == [o |-> o, names |-> g.names, fault |-> fault]
        start == [EmptyStmt EXCEPT !.op = o.op, !.tbl = o.tbl]
    IN  [cache |-> g.cache, queried |-> g.queried,
         stmt |-> IF g.err # "nil" THEN Failed(start, g.err)
                  ELSE CASE o.op = "INSERT" -> buildInsert_r2(cx)
                         [] o.op = "UPDATE" -> buildUpdate_r2(cx)
                         [] o.op = "DELETE" -> buildDelete_r2(cx)]

\* one pass of the loop of ToSQL (changeset.go:287-305)
LoopBody_r2(loc, o, n, fault) ==
    LET b == BuildSQL_r2(loc.ColumnNames, o, fault)
        sqlLine == [b.stmt EXCEPT !.seq = n]
        a == AppendLine(loc.tableIDs, loc.tableOps, o.tbl, o.op, sqlLine)
    IN  IF fault.at = "op"
        THEN [loc EXCEPT !.err = DecodeError] @@
             [built |-> FALSE, queried |-> FALSE, last |-> EmptyStmt]
        ELSE IF b.stmt.err # "nil"
        THEN [loc EXCEPT !.err = b.stmt.err, !.ColumnNames = b.cache] @@
             [built |-> TRUE, queried |-> b.queried, last |-> sqlLine]
        ELSE [loc EXCEPT !.ColumnNames = b.cache, !.tableIDs = a.ids, !.tableOps = a.ops] @@
             [built |-> TRUE, queried |-> b.queried, last |-> sqlLine]

\* iter.Next returns a row and the loop body runs (changeset.go:278-306)
Step_r2 ==
    /\ pc = "loop"
    /\ Len(delivered) < MaxOps
    /\ \E o \in Ops, fault \in Faults :
          Pass(o, LoopBody_r2(Locals, o, Len(delivered) + 1, fault))

Next_r2 ==
    \/ ToSQL
    \/ ToSQLStartFails
    \/ NextFails
    \/ Step_r2
    \/ Finish

Spec_r2 == Init /\ [][Next_r2]_vars

(***************************************************************************)
(* The first revision of the package (changeset.go:21-217): ToSQL appends  *)
(* each line to its result as it is built.                                 *)
(***************************************************************************)
\* _COLUMNF = "'%s'" (changeset.go:75)
Quoted_r1(name) == "'" \o name \o "'"

HexDigitLower(d) == SubSeq("0123456789abcdef", d + 1, d + 1)

\* the text of a factom.Bytes under %v: its bytes in hexadecimal
RECURSIVE HexLower(_)
HexLower(bytes) ==
    IF bytes = <<>> THEN ""
    ELSE HexDigitLower(Head(bytes) \div 16) \o HexDigitLower(Head(bytes) % 16)
         \o HexLower(Tail(bytes))

\* valueString (changeset.go:184-200)
valueString_r1(val) ==
    CASE val.type = "integer" -> IntToStr(val.i)
      [] val.type = "float" -> FloatToStr(val.i)
      [] val.type = "text" -> GoQuote(val.s)
      [] val.type = "blob" -> "x'" \o HexLower(ValueBlob(val)) \o "'"
      [] OTHER -> "NULL"

\* buildInsert (changeset.go:105-122): a failing iter.New ends the loop with return "", nil
RECURSIVE insertLoop_r1(_, _, _)
insertLoop_r1(cx, i, acc) ==
    IF i > Len(cx.names) THEN acc
    ELSE LET n == iterNew(cx.o, i, cx.fault)
             a1 == Read(acc, "new", i)
         IN  IF n.err # "nil" THEN [a1 EXCEPT !.faulted = TRUE]
             ELSE IF IsNil(n.v) THEN insertLoop_r1(cx, i + 1, a1)
             ELSE insertLoop_r1(cx, i + 1,
                                AddCol(a1, Quoted_r1(cx.names[i]), valueString_r1(n.v)))

buildInsert_r1(cx) ==
    LET start == [EmptyStmt EXCEPT !.op = "INSERT", !.tbl = cx.o.tbl, !.names = cx.names]
        acc == insertLoop_r1(cx, 1, start)
        t == Trimmed(acc)
    IN  IF acc.faulted
        THEN [start EXCEPT !.reads = acc.reads, !.faulted = TRUE]
        ELSE [t EXCEPT !.line = "INSERT INTO '" \o cx.o.tbl \o "' (" \o t.cols
                                \o ") VALUES (" \o t.vals \o ");\n"]

\* buildUpdate (changeset.go:124-156)
RECURSIVE updateLoop_r1(_, _, _, _)
updateLoop_r1(cx, pk, i, acc) ==
    IF i > Len(cx.names) THEN acc
    ELSE IF isPK(pk, i)
    THEN LET v == iterOld(cx.o, i, cx.fault)
             a1 == Read(acc, "old", i)
         IN  IF v.err # "nil" THEN Fail(a1, v.err)
             ELSE updateLoop_r1(cx, pk, i + 1,
                                AddPK(a1, Quoted_r1(cx.names[i]), valueString_r1(v.v)))
    ELSE LET v == iterNew(cx.o, i, cx.fault)
             a1 == Read(acc, "new", i)
         IN  IF v.err # "nil" THEN Fail(a1, v.err)
             ELSE IF IsNil(v.v) THEN updateLoop_r1(cx, pk, i + 1, a1)
             ELSE updateLoop_r1(cx, pk, i + 1,
                                AddCol(a1, Quoted_r1(cx.names[i]), valueString_r1(v.v)))

buildUpdate_r1(cx) ==
    LET start == [EmptyStmt EXCEPT !.op = "UPDATE", !.tbl = cx.o.tbl, !.names = cx.names]
        p == iterPK(cx.o, cx.fault)
        acc == updateLoop_r1(cx, p.pk, 1, Read(start, "pk", 0))
        t == Trimmed(acc)
    IN  IF p.err # "nil" THEN Failed(Read(start, "pk", 0), p.err)
        ELSE IF acc.err # "nil" THEN Failed(acc, acc.err)
        ELSE [t EXCEPT !.line = "UPDATE '" \o cx.o.tbl \o "' SET (" \o t.cols \o ") = ("
                                \o t.vals \o ") WHERE (" \o t.pkCols \o ") = (" \o t.pkVals
                                \o ");\n"]

\* buildDelete (changeset.go:158-179)
RECURSIVE deleteLoop_r1(_, _, _, _)
deleteLoop_r1(cx, pk, i, acc) ==
    IF i > Len(cx.names) THEN acc
    ELSE IF ~isPK(pk, i) THEN deleteLoop_r1(cx, pk, i + 1, acc)
    ELSE LET v == iterOld(cx.o, i, cx.fault)
             a1 == Read(acc, "old", i)
         IN  IF v.err # "nil" THEN Fail(a1, v.err)
             ELSE deleteLoop_r1(cx, pk, i + 1,
                                AddPK(a1, Quoted_r1(cx.names[i]), valueString_r1(v.v)))

buildDelete_r1(cx) ==
    LET start == [EmptyStmt EXCEPT !.op = "DELETE", !.tbl = cx.o.tbl, !.names = cx.names]
        p == iterPK(cx.o, cx.fault)
        acc == deleteLoop_r1(cx, p.pk, 1, Read(start, "pk", 0))
        t == Trimmed(acc)
    IN  IF p.err # "nil" THEN Failed(Read(start, "pk", 0), p.err)
        ELSE IF acc.err # "nil" THEN Failed(acc, acc.err)
        ELSE [t EXCEPT !.line = "DELETE FROM '" \o cx.o.tbl \o "' WHERE (" \o t.pkCols
                                \o ") = (" \o t.pkVals \o ");\n"]

\* _Conn.GetColNames (changeset.go:202-217)
GetColNames_r1(cache, tbl, fault) ==
    IF tbl \in DOMAIN cache
    THEN [names |-> cache[tbl], err |-> "nil", cache |-> cache, queried |-> FALSE]
    ELSE IF fault.at = "schema"
    THEN [names |-> <<>>, err |-> SchemaLookupError, cache |-> cache, queried |-> TRUE]
    ELSE [names |-> TableInfo(tbl), err |-> "nil",
          cache |-> cache @@ (tbl :> TableInfo(tbl)), queried |-> TRUE]

\* _Conn.BuildSQL (changeset.go:86-103)
BuildSQL_r1(cache, o, fault) ==
    LET g == GetColNames_r1(cache, o.tbl, fault)
        cx == [o |-> o, names |-> g.names, fault |-> fault]
        start == [EmptyStmt EXCEPT !.op = o.op, !.tbl = o.tbl]
    IN  [cache |-> g.cache, queried |-> g.queried,
         stmt |-> IF g.err # "nil" THEN Failed(start, g.err)
                  ELSE CASE o.op = "INSERT" -> buildInsert_r1(cx)
                         [] o.op = "UPDATE" -> buildUpdate_r1(cx)
                         [] o.op = "DELETE" -> buildDelete_r1(cx)]

\* one pass of the loop of ToSQL (changeset.go:52-63)
LoopBody_r1(loc, o, n, fault) ==
    LET b == BuildSQL_r1(loc.ColumnNames, o, fault)
        sqlLine == [b.stmt EXCEPT !.seq = n]
    IN  IF fault.at = "op"
        THEN [loc EXCEPT !.err = DecodeError] @@
             [built |-> FALSE, queried |-> FALSE, last |-> EmptyStmt]
        ELSE IF b.stmt.err # "nil"
        THEN [loc EXCEPT !.err = b.stmt.err, !.ColumnNames = b.cache] @@
             [built |-> TRUE, queried |-> b.queried, last |-> sqlLine]
        ELSE [loc EXCEPT !.ColumnNames = b.cache, !.sql = @ \o sqlLine.line] @@
             [built |-> TRUE, queried |-> b.queried, last |-> sqlLine]

\* iter.Next returns a row and the loop body runs (changeset.go:43-64)
Step_r1 ==
    /\ pc = "loop"
    /\ Len(delivered) < MaxOps
    /\ \E o \in Ops, fault \in Faults :
          Pass(o, LoopBody_r1(Locals, o, Len(delivered) + 1, fault))

\* iter.Next returns no row: break and return (changeset.go:49-51, 65)
Finish_r1 ==
    /\ pc = "loop"
    /\ nNext' = nNext + 1
    /\ pc' = "done"
    /\ UNCHANGED <<conflict, AlwaysUseBlob, delivered, ColumnNames, tableIDs, tableOps, sql, err,
                   emitted, last, nBuild, queries, rerun, db0, db1, dbc, call, text>>

Next_r1 ==
    \/ ToSQL
    \/ ToSQLStartFails
    \/ NextFails
    \/ Step_r1
    \/ Finish_r1

Spec_r1 == Init /\ [][Next_r1]_vars

(***************************************************************************)
(* The round trip of TestToSQL (unnamed/part_000:35-64).  A database is a  *)
(* record of the rows of t and of t2 (unnamed/part_000:72-82); a row is    *)
(* the tuple of its values.  The session records the changeset between two *)
(* databases, ToSQL compiles it, and ExecScript runs the statements on the *)
(* first database.                                                         *)
(***************************************************************************)
\* the PRIMARY KEY clauses of the two tables
PKMask(tbl) == IF tbl = "t" THEN PKt ELSE PKt2

\* the declared types: INTEGER, INTEGER, TEXT, DOUBLE and INTEGER, BLOB
ColAffinity(tbl) ==
    IF tbl = "t" THEN <<"INTEGER", "INTEGER", "TEXT", "REAL">> ELSE <<"INTEGER", "BLOB">>

\* the values of the key columns of a row
PKOf(tbl, row) == [i \in {j \in 1..Len(row) : PKMask(tbl)[j]} |-> row[i]]

\* the rows a table may hold: keys 1 and 2
RowKeys == {1, 2}

RowsOfT ==
    {<<Integer(k), Integer(k), c, d>> :
        k \in RowKeys, c \in {Text("o'y"), Null}, d \in {Float(3), Float(10)}}

RowsOfT2 == {<<Integer(k), b>> : k \in RowKeys, b \in {Blob(<<1, 255>>), Float(10)}}

KeysUnique(tbl, rows) == \A r1 \in rows, r2 \in rows : PKOf(tbl, r1) = PKOf(tbl, r2) => r1 = r2

\* t holds at most one row, t2 any of its rows
Databases ==
    [t : {rows \in SUBSET RowsOfT : KeysUnique("t", rows) /\ Cardinality(rows) <= 1},
     t2 : {rows \in SUBSET RowsOfT2 : KeysUnique("t2", rows)}]

\* sqlite.Session.Changeset (unnamed/part_000:101-105): one operation per key whose row
\* differs.  An Insert carries the new row, a Delete the old row, an Update the old
\* values of the key and of the modified columns and the new values of the modified
\* columns; the other values are undefined.
RowAt(rows, k) == {r \in rows : r[1] = Integer(k)}

TheRow(rows, k) == CHOOSE r \in RowAt(rows, k) : TRUE

NoRow(tbl) == [i \in 1..Len(TableInfo(tbl)) |-> Nil]

UpdateOld(tbl, r0, r1) ==
    [i \in 1..Len(r0) |-> IF PKMask(tbl)[i] \/ r0[i] # r1[i] THEN r0[i] ELSE Nil]

UpdateNew(tbl, r0, r1) ==
    [i \in 1..Len(r0) |-> IF ~PKMask(tbl)[i] /\ r0[i] # r1[i] THEN r1[i] ELSE Nil]

ChangeAt(tbl, k, from, to) ==
    LET had == RowAt(from[tbl], k) # {}
        has == RowAt(to[tbl], k) # {}
        r0 == TheRow(from[tbl], k)
        r1 == TheRow(to[tbl], k)
    IN  IF ~had /\ has
        THEN <<Op(tbl, "INSERT", PKMask(tbl), NoRow(tbl), r1, NoRow(tbl))>>
        ELSE IF had /\ ~has
        THEN <<Op(tbl, "DELETE", PKMask(tbl), r0, NoRow(tbl), NoRow(tbl))>>
        ELSE IF had /\ has /\ r0 # r1
        THEN <<Op(tbl, "UPDATE", PKMask(tbl), UpdateOld(tbl, r0, r1), UpdateNew(tbl, r0, r1),
                  NoRow(tbl))>>
        ELSE <<>>

Changeset(from, to) ==
    ChangeAt("t", 1, from, to) \o ChangeAt("t", 2, from, to)
    \o ChangeAt("t2", 1, from, to) \o ChangeAt("t2", 2, from, to)

\* SQLite reading a literal of a statement
DigitValue(c) == CHOOSE d \in 0..9 : Digit(d) = c

RECURSIVE ParseNat(_)
ParseNat(s) ==
    IF s = "" THEN 0
    ELSE 10 * ParseNat(SubSeq(s, 1, Len(s) - 1)) + DigitValue(SubSeq(s, Len(s), Len(s)))

HexValue(c) == CHOOSE d \in 0..15 : HexDigit(d) = c

RECURSIVE ParseHex(_)
ParseHex(s) ==
    IF Len(s) < 2 THEN <<>>
    ELSE <<16 * HexValue(SubSeq(s, 1, 1)) + HexValue(SubSeq(s, 2, 2))>>
         \o ParseHex(SubSeq(s, 3, Len(s)))

RECURSIVE Unescape(_)
Unescape(s) ==
    IF s = "" THEN ""
    ELSE IF Len(s) >= 2 /\ SubSeq(s, 1, 2) = "''" THEN "'" \o Unescape(SubSeq(s, 3, Len(s)))
    ELSE SubSeq(s, 1, 1) \o Unescape(SubSeq(s, 2, Len(s)))

DotAt(s) == {i \in 1..Len(s) : SubSeq(s, i, i) = "."}

ParseLiteral(s) ==
    IF s = "NULL" THEN Null
    ELSE IF Len(s) >= 2 /\ SubSeq(s, 1, 2) = "X'" THEN Blob(ParseHex(SubSeq(s, 3, Len(s) - 1)))
    ELSE IF Len(s) >= 2 /\ SubSeq(s, 1, 1) = "'" THEN Text(Unescape(SubSeq(s, 2, Len(s) - 1)))
    ELSE IF DotAt(s) # {}
    THEN LET dot == CHOOSE i \in DotAt(s) : TRUE
         IN  Float(2 * ParseNat(SubSeq(s, 1, dot - 1))
                   + (IF SubSeq(s, dot + 1, Len(s)) = "5" THEN 1 ELSE 0))
    ELSE Integer(ParseNat(s))

\* the column affinity applied to a value that is stored
Affinity(aff, v) ==
    CASE aff = "REAL" /\ v.type = "integer" -> Float(2 * v.i)
      [] aff = "INTEGER" /\ v.type = "float" /\ v.i % 2 = 0 -> Integer(v.i \div 2)
      [] aff = "TEXT" /\ v.type = "integer" -> Text(IntToStr(v.i))
      [] aff = "TEXT" /\ v.type = "float" ->
            Text(IF v.i % 2 = 0 THEN NatToStr(v.i \div 2) \o ".0" ELSE FloatToStr(v.i))
      [] OTHER -> v

\* the = of SQL: never true of a NULL, numbers compare by value
SqlEq(x, y) ==
    LET num(v) == IF v.type = "integer" THEN 2 * v.i ELSE v.i
    IN  /\ x.type # "null" /\ y.type # "null"
        /\ IF x.type \in {"integer", "float"} /\ y.type \in {"integer", "float"}
           THEN num(x) = num(y)
           ELSE x = y

\* the column a quoted identifier of a statement names
ColIndex(tbl, quoted) == CHOOSE i \in 1..Len(TableInfo(tbl)) : GoQuote(TableInfo(tbl)[i]) = quoted

Listed(cols, tbl, i) == {j \in 1..Len(cols) : ColIndex(tbl, cols[j]) = i}

\* the row a statement's column and value lists assign, over a row before
Assigned(st, before) ==
    [i \in 1..Len(TableInfo(st.tbl)) |->
        IF Listed(st.colList, st.tbl, i) = {} THEN before[i]
        ELSE Affinity(ColAffinity(st.tbl)[i],
                      ParseLiteral(st.valList[CHOOSE j \in Listed(st.colList, st.tbl, i) : TRUE]))]

\* the rows the WHERE (key columns) = (key values) of a statement selects
Selected(st, rows) ==
    {r \in rows : \A j \in 1..Len(st.pkColList) :
        SqlEq(r[ColIndex(st.tbl, st.pkColList[j])], ParseLiteral(st.pkValList[j]))}

SQLError == "SQLError"

\* SQLite executing one statement: the database afterwards and the error
ExecStmt(db, st) ==
    LET rows == db[st.tbl]
        new == Assigned(st, [i \in 1..Len(TableInfo(st.tbl)) |-> Null])
    IN  CASE st.op = "INSERT" ->
                IF \E r \in rows : PKOf(st.tbl, r) = PKOf(st.tbl, new)
                THEN [db |-> db, err |-> SQLError]
                ELSE [db |-> [db EXCEPT ![st.tbl] = rows \cup {new}], err |-> "nil"]
          [] st.op = "UPDATE" ->
                [db |-> [db EXCEPT ![st.tbl] = (rows \ Selected(st, rows))
                                       \cup {Assigned(st, r) : r \in Selected(st, rows)}],
                 err |-> "nil"]
          [] st.op = "DELETE" ->
                [db |-> [db EXCEPT ![st.tbl] = rows \ Selected(st, rows)], err |-> "nil"]

\* sqlitex.ExecScript (unnamed/part_000:51): the statements in their order, stopping at
\* the first that fails
RECURSIVE RunScript(_, _)
RunScript(stmts, db) ==
    IF stmts = <<>> THEN [db |-> db, err |-> "nil"]
    ELSE LET r == ExecStmt(db, Head(stmts))
         IN  IF r.err # "nil" THEN r ELSE RunScript(Tail(stmts), r.db)

\* createChangeset (unnamed/part_000:66-136): the connection holds the first database,
\* the changeset is the one recorded up to the second
Init_rt ==
    /\ pc = "idle"
    /\ conflict = FALSE
    /\ AlwaysUseBlob = FALSE
    /\ delivered = <<>>
    /\ ColumnNames = Empty
    /\ tableIDs = Empty
    /\ tableOps = <<>>
    /\ sql = ""
    /\ err = "nil"
    /\ emitted = <<>>
    /\ last = EmptyStmt
    /\ nNext = 0
    /\ nBuild = 0
    /\ queries = <<>>
    /\ rerun = FALSE
    /\ db0 \in Databases
    /\ db1 \in Databases
    /\ dbc = db0
    /\ call = NoCall
    /\ text = ""

\* iter.Next returns the next operation of the changeset (changeset.go:547-575)
Step_rt ==
    /\ pc = "loop"
    /\ Len(delivered) < Len(Changeset(db0, db1))
    /\ Pass(Changeset(db0, db1)[Len(delivered) + 1],
            LoopBody(Locals, Changeset(db0, db1)[Len(delivered) + 1], Len(delivered) + 1,
                     conflict, AlwaysUseBlob, NoFault))

\* iter.Next returns no row once the changeset is read
Finish_rt ==
    /\ Len(delivered) = Len(Changeset(db0, db1))
    /\ Finish

\* sqlitex.ExecScript(conn, sql) (unnamed/part_000:51)
ExecScript ==
    /\ pc = "done"
    /\ err = "nil"
    /\ dbc' = RunScript(emitted, dbc).db
    /\ err' = RunScript(emitted, dbc).err
    /\ pc' = "applied"
    /\ UNCHANGED <<conflict, AlwaysUseBlob, delivered, ColumnNames, tableIDs, tableOps, sql,
                   emitted, last, nNext, nBuild, queries, rerun, db0, db1, call, text>>

Next_rt ==
    \/ ToSQL
    \/ Step_rt
    \/ Finish_rt
    \/ ExecScript

Spec_rt == Init_rt /\ [][Next_rt]_vars

(***************************************************************************)
(* valueString on its own: a builder formats one value after another.      *)
(* The package-level switch AlwaysUseBlob (changeset.go:510-513) is set by *)
(* the user of the package between calls.                                  *)
(***************************************************************************)
FormatTexts == {"", "hello", "O'Brien", "o'y", "'", "''", "a'b'c", "*/", "x;", "' '"}

FormatBlobs ==
    {<<>>, <<0>>, <<0, 0>>, <<255>>, <<255, 255>>, <<1, 255>>, <<171, 205>>, <<10>>,
     <<39>>, <<79, 39, 66>>}

FormatValues ==
    {Text(t) : t \in FormatTexts} \cup {Blob(b) : b \in FormatBlobs}
    \cup {Integer(0), Integer(1), Integer(-7), Integer(42), Float(3), Float(10), Float(21), Null}

Init_fmt ==
    /\ pc = "fmt"
    /\ conflict = FALSE
    /\ AlwaysUseBlob = FALSE
    /\ delivered = <<>>
    /\ ColumnNames = Empty
    /\ tableIDs = Empty
    /\ tableOps = <<>>
    /\ sql = ""
    /\ err = "nil"
    /\ emitted = <<>>
    /\ last = EmptyStmt
    /\ nNext = 0
    /\ nBuild = 0
    /\ queries = <<>>
    /\ rerun = FALSE
    /\ db0 = Empty
    /\ db1 = Empty
    /\ dbc = Empty
    /\ call = NoCall
    /\ text = ""

\* var AlwaysUseBlob bool (changeset.go:513): the user flips the switch
SetAlwaysUseBlob ==
    /\ pc = "fmt"
    /\ AlwaysUseBlob' = ~AlwaysUseBlob
    /\ UNCHANGED <<pc, conflict, delivered, ColumnNames, tableIDs, tableOps, sql, err, emitted,
                   last, nNext, nBuild, queries, rerun, db0, db1, dbc, call, text>>

\* valueString(val) is called (changeset.go:749-768)
Format ==
    /\ pc = "fmt"
    /\ nBuild < MaxCalls
    /\ \E v \in FormatValues :
          /\ call' = [val |-> v, ab |-> AlwaysUseBlob]
          /\ text' = valueString(v, AlwaysUseBlob)
    /\ nBuild' = nBuild + 1
    /\ UNCHANGED <<pc, conflict, AlwaysUseBlob, delivered, ColumnNames, tableIDs, tableOps, sql,
                   err, emitted, last, nNext, queries, rerun, db0, db1, dbc>>

Next_fmt ==
    \/ SetAlwaysUseBlob
    \/ Format

Spec_fmt == Init_fmt /\ [][Next_fmt]_vars

\* valueString(val) of the first revision is called (changeset.go:184-200)
Format_r1 ==
    /\ pc = "fmt"
    /\ nBuild < MaxCalls
    /\ \E v \in FormatValues :
          /\ call' = [val |-> v, ab |-> FALSE]
          /\ text' = valueString_r1(v)
    /\ nBuild' = nBuild + 1
    /\ UNCHANGED <<pc, conflict, AlwaysUseBlob, delivered, ColumnNames, tableIDs, tableOps, sql,
                   err, emitted, last, nNext, queries, rerun, db0, db1, dbc>>

Next_fmt_r1 == Format_r1

Spec_fmt_r1 == Init_fmt /\ [][Next_fmt_r1]_vars

(***************************************************************************)
(* Statements whose comments carry values with a comment terminator or a   *)
(* semicolon: operations that differ only in the old values of data        *)
(* columns or in the conflict values.                                      *)
(***************************************************************************)
ConfEnd == <<Integer(9), Integer(9), Text("*/"), Null>>

UpdOldEnd == Op("t", "UPDATE", PKt, <<Integer(1), Integer(1), Text("x*/"), Nil>>,
                <<Nil, Nil, Text("hello world"), Nil>>, Conf4)
UpdOldSemi == Op("t", "UPDATE", PKt, <<Integer(1), Integer(1), Text("x;"), Nil>>,
                 <<Nil, Nil, Text("hello world"), Nil>>, Conf4)
UpdConfEnd == Op("t", "UPDATE", PKt, <<Integer(1), Integer(1), Text("hello"), Nil>>,
                 <<Nil, Nil, Text("hello world"), Nil>>, ConfEnd)
DelOldEnd == Op("t", "DELETE", PKt, <<Integer(5), Integer(5), Text("*/;"), Float(3)>>, NoRow4, Conf4)
DelOldSemi == Op("t", "DELETE", PKt, <<Integer(5), Integer(5), Text("x;"), Float(3)>>, NoRow4, Conf4)

CommentOps == {UpdHello, UpdOldEnd, UpdOldSemi, UpdConfEnd, DelFive, DelOldEnd, DelOldSemi}

\* iter.Next returns a row and the loop body runs (changeset.go:547-575)
Step_cmt ==
    /\ pc = "loop"
    /\ Len(delivered) < MaxOps
    /\ \E o \in CommentOps :
          Pass(o, LoopBody(Locals, o, Len(delivered) + 1, conflict, AlwaysUseBlob, NoFault))

Next_cmt ==
    \/ ToSQL
    \/ ChangesetIterToSQL
    \/ Step_cmt
    \/ Finish

Spec_cmt == Init /\ [][Next_cmt]_vars

\* SQLite reading a statement: outside of a string literal and of a quoted identifier
\* a comment runs from /* to the first */ and counts as white space
FirstAt(line, i, marks) ==
    LET at == {k \in i..Len(line) :
                  \E m \in marks : k + Len(m) - 1 <= Len(line) /\ SubSeq(line, k, k + Len(m) - 1) = m}
    IN  IF at = {} THEN 0 ELSE CHOOSE k \in at : \A j \in at : k <= j

RECURSIVE Scan(_, _, _)
Scan(line, i, out) ==
    LET k == FirstAt(line, i, {"'", "\"", "/*"})
        c == SubSeq(line, k, k)
        close == IF c = "/" THEN FirstAt(line, k + 2, {"*/"}) ELSE FirstAt(line, k + 1, {c})
    IN  IF i > Len(line) THEN out
        ELSE IF k = 0 THEN out \o SubSeq(line, i, Len(line))
        ELSE IF c = "/"
        THEN IF close = 0 THEN out \o SubSeq(line, i, k - 1) \o " "
             ELSE Scan(line, close + 2, out \o SubSeq(line, i, k - 1) \o " ")
        ELSE IF close = 0 THEN out \o SubSeq(line, i, Len(line))
             ELSE Scan(line, close + 1, out \o SubSeq(line, i, close))

\* what sqlitex.ExecScript executes of a line (unnamed/part_000:51)
Executed(line) == Scan(line, 1, "")

(***************************************************************************)
(* Helpers of the properties.                                              *)
(***************************************************************************)
RECURSIVE SortedSeq(_)
SortedSeq(S) ==
    IF S = {} THEN <<>>
    ELSE LET m == CHOOSE x \in S : \A y \in S : x <= y
         IN  <<m>> \o SortedSeq(S \ {m})

RECURSIVE Join(_)
Join(list) ==
    IF list = <<>> THEN ""
    ELSE IF Len(list) = 1 THEN list[1]
    ELSE list[1] \o ", " \o Join(Tail(list))

StartsWith(s, prefix) == Len(s) >= Len(prefix) /\ SubSeq(s, 1, Len(prefix)) = prefix

Contains(s, part) ==
    \E k \in 1..(Len(s) - Len(part) + 1) : SubSeq(s, k, k + Len(part) - 1) = part

\* the lines of the statements, an empty line closing each run of statements of one table
RECURSIVE TextOf(_)
TextOf(stmts) ==
    IF stmts = <<>> THEN ""
    ELSE Head(stmts).line
         \o (IF Len(stmts) = 1 \/ stmts[2].tbl # stmts[1].tbl THEN "\n" ELSE "")
         \o TextOf(Tail(stmts))

KindRank(op) == CASE op = "INSERT" -> 1 [] op = "UPDATE" -> 2 [] op = "DELETE" -> 3

FirstSeen(tbl) ==
    CHOOSE i \in 1..Len(delivered) :
        delivered[i].tbl = tbl /\ \A j \in 1..(i - 1) : delivered[j].tbl # tbl

QuotedNames(names, idx) == [k \in 1..Len(idx) |-> GoQuote(names[idx[k]])]
Formatted(values, idx) == [k \in 1..Len(idx) |-> valueString(values[idx[k]], AlwaysUseBlob)]

\* a statement has been built without error for the operation delivered last
Built(kinds) == last.err = "nil" /\ last.seq \in 1..Len(delivered) /\ last.op \in kinds
LastOp == delivered[last.seq]

Compiled == pc = "done" /\ err = "nil"

WhereUsesOldKey ==
    Built({"UPDATE", "DELETE"}) =>
        LET o == LastOp
            idx == SortedSeq({i \in 1..Len(last.names) : o.pk[i]})
        IN  /\ last.pkColList = QuotedNames(last.names, idx)
            /\ last.pkValList = Formatted(o.old, idx)
            /\ Len(last.pkColList) = Len(last.pkValList)
            /\ Contains(last.line, " WHERE (" \o Join(last.pkColList) \o ") = ("
                                   \o Join(last.pkValList) \o ") /*")

\* an Update of a two-column key, and an Update whose new key differs from the old one
WhereUsesOldKeyWitness ==
    /\ Built({"UPDATE"})
    /\ LastOp = UpdBlob
    /\ last.pkValList = <<"1">>
    /\ Len(delivered) > 1
    /\ delivered[1].op = "DELETE" /\ delivered[1].tbl = "t"

(***************************************************************************)
(* C4: an INSERT lists, in ascending column order, exactly the columns the *)
(* decoder reports a new value for (a recorded NULL included), and the     *)
(* k-th value is the formatted new value of the k-th listed column.        *)
(***************************************************************************)
InsertListsNewValues ==
    Built({"INSERT"}) =>
        LET o == LastOp
            idx == SortedSeq({i \in 1..Len(last.names) : o.new[i].type # "nil"})
        IN  /\ last.colList = QuotedNames(last.names, idx)
            /\ last.valList = Formatted(o.new, idx)
            /\ Len(last.colList) = Len(last.valList)
            /\ StartsWith(last.line, "INSERT INTO " \o GoQuote(o.tbl) \o " (" \o Join(last.colList)
                                     \o ") VALUES (" \o Join(last.valList) \o ")")

\* a row with a recorded NULL (listed) and a column without a new value (left out)
InsertListsNewValuesWitness ==
    /\ Built({"INSERT"})
    /\ LastOp = InsNull
    /\ last.colList = <<"\"a\"", "\"b\"", "\"c\"">>
    /\ last.valList = <<"4", "4", "NULL">>

(***************************************************************************)
(* C5: the SET list of an UPDATE holds exactly the columns that are not    *)
(* primary-key columns and have a new value, in ascending column order,    *)
(* with the formatted new values; no column is in both SET and WHERE.      *)
(***************************************************************************)
SetListsDataColumns ==
    Built({"UPDATE"}) =>
        LET o == LastOp
            idx == SortedSeq({i \in 1..Len(last.names) : ~o.pk[i] /\ o.new[i].type # "nil"})
            keys == {GoQuote(last.names[i]) : i \in {k \in 1..Len(last.names) : o.pk[k]}}
        IN  /\ last.colList = QuotedNames(last.names, idx)
            /\ last.valList = Formatted(o.new, idx)
            /\ Len(last.colList) = Len(last.valList)
            /\ \A k \in 1..Len(last.colList) : last.colList[k] \notin keys
            /\ \A k \in 1..Len(last.colList), m \in 1..Len(last.pkColList) :
                  last.colList[k] # last.pkColList[m]
            /\ StartsWith(last.line, "UPDATE " \o GoQuote(o.tbl) \o " SET (" \o Join(last.colList)
                                     \o ") = (" \o Join(last.valList) \o ") WHERE (")

\* an Update with a data column left out, and one whose key column has a new value
SetListsDataColumnsWitness ==
    /\ Built({"UPDATE"})
    /\ LastOp = UpdBlob
    /\ last.colList = <<"\"b\"">>
    /\ Len(delivered) > 1
    /\ delivered[1] = UpdHello

(***************************************************************************)
(* C8: in one run the schema is queried at most once per table: the first  *)
(* resolve of a table queries and stores the list, a later one returns the *)
(* stored list (an empty one too) without a query; a new run starts with   *)
(* an empty map and queries again.                                         *)
(***************************************************************************)
QueriedOnceInv ==
    /\ \A i, j \in 1..Len(queries) : i # j => queries[i] # queries[j]
    /\ DOMAIN ColumnNames \subseteq {queries[i] : i \in 1..Len(queries)}
    /\ err = "nil" => DOMAIN ColumnNames = {queries[i] : i \in 1..Len(queries)}
    /\ \A i \in 1..Len(delivered) : delivered[i].tbl \in DOMAIN ColumnNames

QueriedOnceStep ==
    /\ \A tbl \in DOMAIN ColumnNames :
          pc' # "idle" => tbl \in DOMAIN ColumnNames' /\ ColumnNames'[tbl] = ColumnNames[tbl]
    /\ (pc = "loop" /\ nBuild' = nBuild + 1) =>
          IF last'.tbl \in DOMAIN ColumnNames
          THEN queries' = queries /\ (last'.err = "nil" => last'.names = ColumnNames[last'.tbl])
          ELSE queries' = Append(queries, last'.tbl)
    /\ (pc = "idle" /\ pc' # "idle") => ColumnNames' = Empty /\ queries' = <<>>

QueriedOnce == []QueriedOnceInv /\ [][QueriedOnceStep]_vars

\* in a second run: a table resolved again after a table with an empty list
QueriedOnceWitness ==
    /\ rerun
    /\ pc = "loop"
    /\ Len(delivered) = 3
    /\ delivered[1].tbl = "zz" /\ delivered[2].tbl = "t" /\ delivered[3].tbl = "zz"
    /\ queries = <<"zz", "t">>
    /\ ColumnNames["zz"] = <<>>

(***************************************************************************)
(* C9 (as claimed): resolving the columns of a table the database does not *)
(* have, or a failing query, is a SchemaLookupError that ends the          *)
(* compilation: no statement is built for the operation and no entry for   *)
(* the table is stored.                                                    *)
(***************************************************************************)
KnownTable(tbl) == TableInfo(tbl) # <<>>

UnknownTableIsAnError ==
    /\ \A tbl \in DOMAIN ColumnNames : KnownTable(tbl)
    /\ (last.seq > 0 /\ ~KnownTable(last.tbl)) =>
          /\ last.err = SchemaLookupError
          /\ last.line = ""
          /\ pc = "done" /\ err = SchemaLookupError
    /\ (last.seq > 0 /\ last.err = SchemaLookupError) =>
          /\ last.line = ""
          /\ last.tbl \notin DOMAIN ColumnNames
          /\ pc = "done" /\ err = SchemaLookupError

(***************************************************************************)
(* C10 (as claimed): the stream Insert (1,1), Update (1,1), Insert (3,3),  *)
(* Delete (5,5) of table t compiles, comments aside, to the four           *)
(* statements in the order of the input.                                   *)
(***************************************************************************)
ExampleStream == <<InsHello, UpdHello, InsGoodbye, DelFive>>

\* the line without its comment
NoComment(line) ==
    IF Contains(line, " /*")
    THEN LET k == CHOOSE k \in 1..Len(line) :
                      /\ SubSeq(line, k, k + 2) = " /*"
                      /\ \A m \in 1..(k - 1) : SubSeq(line, m, m + 2) # " /*"
         IN  SubSeq(line, 1, k - 1) \o ";\n"
    ELSE line

Executable(stmts) == [i \in 1..Len(stmts) |-> NoComment(stmts[i].line)]

InsHelloSQL == "INSERT INTO \"t\" (\"a\", \"b\", \"c\") VALUES (1, 1, 'hello');\n"
UpdHelloSQL == "UPDATE \"t\" SET (\"c\") = ('hello world') WHERE (\"a\", \"b\") = (1, 1);\n"
InsGoodbyeSQL == "INSERT INTO \"t\" (\"a\", \"b\", \"c\") VALUES (3, 3, 'goodbye world');\n"
DelFiveSQL == "DELETE FROM \"t\" WHERE (\"a\", \"b\") = (5, 5);\n"

OfKind(kind) ==
    SortedSeq({i \in 1..Len(delivered) : delivered[i].op = kind})

NoPartialSuccess ==
    pc = "done" =>
        /\ err # "nil" => sql = ""
        /\ sql # "" => err = "nil"

(***************************************************************************)
(* C7 (as claimed): the first failure of a step of the compilation is      *)
(* returned as a non-nil error: it is not swallowed and the loop does not  *)
(* go on.                                                                  *)
(***************************************************************************)
FailFast ==
    /\ last.faulted => (pc = "done" /\ err # "nil" /\ last.line = "")
    /\ \A i \in 1..Len(tableOps) : \A k \in 1..3 : \A m \in 1..Len(tableOps[i][k]) :
          ~tableOps[i][k][m].faulted /\ tableOps[i][k][m].line # ""

(***************************************************************************)
(* C2 (as claimed): round trip: the statements of ToSQL(C), executed in    *)
(* their output order on a copy of the database the changeset C was        *)
(* recorded from, yield the database it was recorded up to: the changeset  *)
(* between the result and that database is empty.                          *)
(***************************************************************************)
RoundTrip ==
    pc = "applied" => (err = "nil" /\ dbc = db1 /\ Changeset(dbc, db1) = <<>>)

\* the round trip of the changesets none of whose new values is a whole REAL
\* kept in a column without an affinity
WholeRealKept(o) ==
    \E i \in 1..Len(o.new) :
        o.new[i].type = "float" /\ o.new[i].i % 2 = 0 /\ ColAffinity(o.tbl)[i] = "BLOB"

RoundTripOfExactTexts ==
    (pc = "applied" /\ \A n \in 1..Len(delivered) : ~WholeRealKept(delivered[n]))
        => (err = "nil" /\ dbc = db1)

\* a replay that reordered a Delete behind an Insert and wrote a NULL
RoundTripReordered ==
    /\ pc = "applied"
    /\ dbc = db1
    /\ \E m \in 1..Len(emitted), n \in 1..Len(emitted) :
          /\ m < n
          /\ emitted[m].seq > emitted[n].seq
          /\ emitted[m].tbl = emitted[n].tbl
    /\ \E m \in 1..Len(emitted) : \E j \in 1..Len(emitted[m].valList) :
          emitted[m].valList[j] = "NULL"

(***************************************************************************)
(* C11 (as claimed): with AlwaysUseBlob off, a Text value is formatted as  *)
(* the value between single quotes, each single quote of the value written *)
(* twice and every other character as it is (O'Brien gives 'O''Brien'); so *)
(* the quotes inside the literal are even in number and reading the        *)
(* literal back gives the value.                                           *)
(***************************************************************************)
QuoteCount(s) == Cardinality({i \in 1..Len(s) : SubSeq(s, i, i) = "'"})

Inner(s) == SubSeq(s, 2, Len(s) - 1)

TextCall == nBuild > 0 /\ call.val.type = "text" /\ ~call.ab

TextIsQuoted ==
    TextCall =>
        /\ Len(text) = Len(call.val.s) + QuoteCount(call.val.s) + 2
        /\ SubSeq(text, 1, 1) = "'" /\ SubSeq(text, Len(text), Len(text)) = "'"
        /\ QuoteCount(Inner(text)) = 2 * QuoteCount(call.val.s)
        /\ Unescape(Inner(text)) = call.val.s
        /\ call.val.s = "O'Brien" => text = "'O''Brien'"

(***************************************************************************)
(* C12: a Blob is formatted as X' followed by two uppercase hexadecimal    *)
(* digits per byte and a closing quote; with AlwaysUseBlob on a Text is    *)
(* formatted as the Blob of its bytes, with it off a Text is never a blob  *)
(* literal; Integer, Float and Null are formatted the same either way.     *)
(***************************************************************************)
UpperHexDigits == {SubSeq("0123456789ABCDEF", d, d) : d \in 1..16}

IsBlobLiteral(s, bytes) ==
    /\ Len(s) = 2 * Len(bytes) + 3
    /\ SubSeq(s, 1, 2) = "X'"
    /\ SubSeq(s, Len(s), Len(s)) = "'"
    /\ \A i \in 3..(Len(s) - 1) : SubSeq(s, i, i) \in UpperHexDigits
    /\ ParseHex(Inner(Tail(s))) = bytes

BlobLiteralByPolicy ==
    nBuild > 0 =>
        /\ call.val.type = "blob" => IsBlobLiteral(text, call.val.b)
        /\ (call.val.type = "text" /\ call.ab) =>
              /\ IsBlobLiteral(text, TextBytes(call.val.s))
              /\ text = valueString(Blob(TextBytes(call.val.s)), call.ab)
        /\ (call.val.type = "text" /\ ~call.ab) => SubSeq(text, 1, 1) # "X"
        /\ call.val.type \in {"integer", "float", "null"} =>
              text = valueString(call.val, ~call.ab)

BlobLiteralByPolicyWitness ==
    /\ nBuild > 1
    /\ call.ab
    /\ call.val = Text("O'Brien")
    /\ text = "X'4F27427269656E'"

(***************************************************************************)
(* C13: with the conflict parameter set, a statement carries a comment     *)
(* that lists one conflict value per annotated column, in column order:    *)
(* the columns of the column list of an Insert, of the SET list of an      *)
(* Update, the non-key columns of a Delete.  With the parameter not set    *)
(* iter.Conflict is not called and no statement has a conflict comment.    *)
(***************************************************************************)
Annotated(o, names) ==
    SortedSeq({i \in 1..Len(names) :
        CASE o.op = "INSERT" -> o.new[i].type # "nil"
          [] o.op = "UPDATE" -> ~o.pk[i] /\ o.new[i].type # "nil"
          [] OTHER -> ~o.pk[i]})

ConflictReads(reads) == SelectSeq(reads, LAMBDA r : r[1] = "conflict")

EndsWith(s, suffix) ==
    Len(s) >= Len(suffix) /\ SubSeq(s, Len(s) - Len(suffix) + 1, Len(s)) = suffix

ConflictListed ==
    Built({"INSERT", "UPDATE", "DELETE"}) =>
        LET o == LastOp
            idx == Annotated(o, last.names)
            annotates == IF o.op = "DELETE" THEN last.oldColList ELSE last.colList
        IN  IF conflict
            THEN /\ last.confList = Formatted(o.conf, idx)
                 /\ Len(last.confList) = Len(annotates)
                 /\ ConflictReads(last.reads) = [k \in 1..Len(idx) |-> <<"conflict", idx[k]>>]
                 /\ IF o.op = "INSERT"
                    THEN EndsWith(last.line, ") /* conflict: (" \o Join(last.confList) \o ") */;\n")
                    ELSE EndsWith(last.line, ") conflict: (" \o Join(last.confList) \o ") */;\n")
            ELSE /\ last.confList = <<>>
                 /\ ConflictReads(last.reads) = <<>>
                 /\ ~Contains(last.line, "conflict")

\* an Insert that leaves a column out, compiled with the conflict parameter set
ConflictListedWitness ==
    /\ conflict
    /\ Built({"INSERT"})
    /\ LastOp = InsNull
    /\ last.colList = <<"\"a\"", "\"b\"", "\"c\"">>
    /\ last.confList = <<"9", "9", "'x'">>

(***************************************************************************)
(* C14 (as claimed): the comments do not influence what is executed: two   *)
(* Update or two Delete statements built for operations that agree on the  *)
(* table, the column names, the key mask, the old values of the key        *)
(* columns and the new values of the data columns execute the same SQL,    *)
(* whatever the old values of the data columns and the conflict values.    *)
(***************************************************************************)
SameExecutableParts(o1, o2) ==
    /\ o1.op = o2.op /\ o1.tbl = o2.tbl /\ o1.pk = o2.pk
    /\ \A i \in 1..Len(o1.pk) :
          IF o1.pk[i] THEN o1.old[i] = o2.old[i] ELSE o1.new[i] = o2.new[i]

CommentsAreInert ==
    Compiled =>
        \A m \in 1..Len(emitted), n \in 1..Len(emitted) :
            (/\ emitted[m].op \in {"UPDATE", "DELETE"}
             /\ emitted[m].names = emitted[n].names
             /\ SameExecutableParts(delivered[emitted[m].seq], delivered[emitted[n].seq]))
                => Executed(emitted[m].line) = Executed(emitted[n].line)

\* the same of statements none of whose commented values holds a comment terminator
HasTerminator(o) ==
    \E i \in 1..Len(o.pk) :
        \/ o.old[i].type = "text" /\ Contains(o.old[i].s, "*/")
        \/ o.conf[i].type = "text" /\ Contains(o.conf[i].s, "*/")

CommentsAreInertWithoutTerminator ==
    Compiled =>
        \A m \in 1..Len(emitted), n \in 1..Len(emitted) :
            (/\ emitted[m].op \in {"UPDATE", "DELETE"}
             /\ emitted[m].names = emitted[n].names
             /\ ~HasTerminator(delivered[emitted[m].seq])
             /\ ~HasTerminator(delivered[emitted[n].seq])
             /\ SameExecutableParts(delivered[emitted[m].seq], delivered[emitted[n].seq]))
                => Executed(emitted[m].line) = Executed(emitted[n].line)

(***************************************************************************)
(* C15 (as claimed): in the final text the block of a table is separated   *)
(* from the block of the next table by a blank line, the text does not end *)
(* with a blank line or any other white space after the last statement,    *)
(* and an empty stream compiles to the empty string.                       *)
(***************************************************************************)
\* the lines of the statements, an empty line between the statements of two tables
RECURSIVE Separated(_)
Separated(stmts) ==
    IF stmts = <<>> THEN ""
    ELSE Head(stmts).line
         \o (IF Len(stmts) > 1 /\ stmts[2].tbl # stmts[1].tbl THEN "\n" ELSE "")
         \o Separated(Tail(stmts))

WhiteSpace == {" ", "\n", "\t", "\r"}

NoTrailingWhiteSpace ==
    Compiled =>
        /\ sql = Separated(emitted)
        /\ delivered = <<>> => sql = ""
        /\ sql # "" => SubSeq(sql, Len(sql), Len(sql)) \notin WhiteSpace

(***************************************************************************)
(* C15 (amended): the blocks are separated by a blank line, an empty       *)
(* stream compiles to the empty string, and a text that is not empty ends  *)
(* with the newline that terminates its last statement and with no blank   *)
(* line after it.                                                          *)
(***************************************************************************)
EndsWithOneNewline ==
    Compiled =>
        /\ sql = Separated(emitted)
        /\ delivered = <<>> => sql = ""
        /\ sql # "" => (EndsWith(sql, ";\n") /\ ~EndsWith(sql, "\n\n"))

\* a compiled stream of two tables
EndsWithOneNewlineWitness ==
    /\ Compiled
    /\ Len(tableOps) = 2
    /\ Len(emitted) = 3
    /\ Contains(sql, ";\n\n")
    /\ EndsWith(sql, ";\n")

(***************************************************************************)
(* C16: conservation of operations.  After any prefix of the stream,       *)
(* tableIDs maps the tables seen so far one to one onto the indices        *)
(* 0..n-1 of tableOps in first-seen order, every entry of tableOps has     *)
(* three buckets, and the buckets hold one statement per operation         *)
(* processed, each in the bucket of its table and kind and nowhere else.   *)
(* A successful compilation emits one statement per operation and has read *)
(* the stream once.                                                        *)
(***************************************************************************)
TablesSeen == {delivered[n].tbl : n \in 1..Len(delivered)}

Places(n) ==
    {<<i, k, m>> \in (1..Len(tableOps)) \X (1..3) \X (1..Len(delivered)) :
        m <= Len(tableOps[i][k]) /\ tableOps[i][k][m].seq = n}

Held ==
    {<<i, k, m>> \in (1..Len(tableOps)) \X (1..3) \X (1..(Len(delivered) + 1)) :
        m <= Len(tableOps[i][k])}

Conservation ==
    (pc \in {"loop", "done"} /\ err = "nil") =>
        /\ DOMAIN tableIDs = TablesSeen
        /\ {tableIDs[t] : t \in TablesSeen} = 0..(Len(tableOps) - 1)
        /\ Cardinality(TablesSeen) = Len(tableOps)
        /\ \A t1 \in TablesSeen, t2 \in TablesSeen :
              FirstSeen(t1) < FirstSeen(t2) => tableIDs[t1] < tableIDs[t2]
        /\ \A i \in 1..Len(tableOps) : Len(tableOps[i]) = 3
        /\ Cardinality(Held) = Len(delivered)
        /\ \A n \in 1..Len(delivered) :
              /\ Cardinality(Places(n)) = 1
              /\ \A p \in Places(n) :
                    /\ p[1] = tableIDs[delivered[n].tbl] + 1
                    /\ p[2] = KindRank(delivered[n].op)
        /\ nBuild = Len(delivered)
        /\ pc = "loop" => nNext = Len(delivered)
        /\ pc = "done" =>
              /\ nNext = Len(delivered) + 1
              /\ Len(emitted) = Len(delivered)
              /\ {emitted[m].seq : m \in 1..Len(emitted)} = 1..Len(delivered)

\* two tables interleaved, two statements in one bucket
ConservationWitness ==
    /\ pc = "loop"
    /\ Len(delivered) = 3
    /\ delivered[1] = InsHello /\ delivered[2] = DelBlob /\ delivered[3] = InsGoodbye
    /\ tableIDs["t"] = 0 /\ tableIDs["t2"] = 1
    /\ Len(tableOps[1][1]) = 2

====
